---- MODULE Spec2Model ----
(***************************************************************************)
(* TaskNova: the reminder scheduling core of src/app.py with the SQLite    *)
(* store of src/database.py.                                               *)
(*                                                                         *)
(* State: the wall clock, the SQLite database (tasks, reminders, the       *)
(* AUTOINCREMENT sequence), the in-memory APScheduler job store, the       *)
(* webhook request in progress, and what the notifier has delivered.       *)
(* Time is counted in ticks; TicksPerSecond ticks make one second, so that *)
(* int(now_utc.timestamp()) really truncates.                              *)
(* The AI metadata columns (urgency, category, duration, type, priority)   *)
(* are opaque pass-through data and are left out of the rows.              *)
(***************************************************************************)
EXTENDS Integers, Sequences, FiniteSets, TLC

VARIABLES now, running, db, jobs, req, nreq, sends, fired, skipped, last

vars == <<now, running, db, jobs, req, nreq, sends, fired, skipped, last>>

(* ------------------------------ bounds -------------------------------- *)
MaxTime == 1
TicksPerSecond == 2
MaxChat == 1
MaxReminders == 2
MaxRequests == 2
MaxAhead == 1
MaxBehind == 1
MaxSends == 2

(* ------------------------- timezone constants ------------------------- *)
\* pytz.timezone('Asia/Kolkata'): UTC+05:30, in seconds
USER_TIMEZONE == 19800
\* pytz.UTC offset
UTC == 0

UserOffset == USER_TIMEZONE * TicksPerSecond

(* --------------------------- datetime values --------------------------- *)
\* A datetime is its wall-clock reading plus its UTC offset (both in ticks);
\* kind "naive" has no tzinfo, kind "none" is Python's None.
Aware(wall, off) == [kind |-> "aware", wall |-> wall, off |-> off]
Naive(wall) == [kind |-> "naive", wall |-> wall, off |-> 0]
None == [kind |-> "none", wall |-> 0, off |-> 0]

\* the instant an aware datetime denotes (what <, <= on datetimes compare)
Instant(dt) == dt.wall - dt.off

\* a faulty variant: the zone is replaced and the wall clock kept
astimezone_keeps_wall(dt, off) == Aware(dt.wall, off)

astimezone(dt, off) == Aware(Instant(dt) + off, off)

get_current_time_in_user_tz(t) == Aware(t + UserOffset, UserOffset)

get_current_time_utc(t) == Aware(t, UTC)

convert_to_utc(dt) ==
    IF dt.kind = "naive"
    THEN astimezone(Aware(dt.wall, UserOffset), UTC)
    ELSE astimezone(dt, UTC)

convert_to_user_tz(dt) ==
    IF dt.kind = "naive"
    THEN astimezone(Aware(dt.wall, UTC), UserOffset)
    ELSE astimezone(dt, UserOffset)

\* A time text of the planner is <<>> (no recognizable temporal expression)
\* or <<w>>: a wall-clock reading w, which dateparser reads in Asia/Kolkata.
dateparser_parse_user(time_str) ==
    IF Len(time_str) = 0 THEN None ELSE Aware(time_str[1], UserOffset)

parse_time_string(time_str, reference_time) ==
    LET parsed_dt == dateparser_parse_user(time_str)
    IN IF parsed_dt.kind # "none" THEN convert_to_utc(parsed_dt) ELSE None

\* datetime.isoformat(): the text carries the wall clock and the offset
isoformat(dt) == <<dt.wall, dt.off>>

\* dateparser.parse of an ISO-8601 text with offset
dateparser_parse_iso(s) == Aware(s[1], s[2])

\* int(now_utc.timestamp())
Timestamp(dt) == Instant(dt) \div TicksPerSecond

(* ------------------------------ database ------------------------------ *)
EmptyDb == [tasks |-> << >>, reminders |-> << >>, seq |-> 0]

\* a faulty variant: an aborted transaction keeps what it had written
Rollback_keeps_partial(d, txn) == txn

\* "with sqlite3.connect(...) as conn": leaving the block on an exception
\* (or losing the process) rolls the open transaction back.
Rollback(d, txn) == d

\* conn.commit()
Commit(d, txn) == txn

\* datetime.utcnow().isoformat(): a naive ISO-8601 text; the fraction of the
\* second is printed only when it is not zero. The text is modelled by its
\* fields: <<seconds>> or <<seconds, fraction>>.
utcnow_isoformat(t) ==
    IF t % TicksPerSecond = 0 THEN <<t \div TicksPerSecond>>
    ELSE <<t \div TicksPerSecond, t % TicksPerSecond>>

TaskRow(chat_id, task_description, base_time, t) ==
    [chat_id |-> chat_id, task_description |-> task_description,
     base_time |-> base_time, created_at |-> utcnow_isoformat(t),
     status |-> "active"]

ReminderRow(task_id, entry, t) ==
    [task_id |-> task_id, job_id |-> entry.id,
     reminder_time_utc |-> entry.time_utc,
     reminder_time_user |-> entry.time_user,
     message |-> entry.message, status |-> "pending",
     created_at |-> utcnow_isoformat(t), sent_at |-> None]

\* a faulty variant: job_id carries no UNIQUE constraint, an INSERT of an
\* existing job_id replaces the row
UniqueViolation_never(txn, job_id) == FALSE

\* "job_id TEXT UNIQUE NOT NULL": the INSERT of a job_id that a row of the
\* table (committed, or written earlier in this transaction) holds raises
UniqueViolation(txn, job_id) == job_id \in DOMAIN txn.reminders

\* a faulty variant: the loop inserts no reminder row
InsertReminders_skips(txn, task_id, entries, i, t, fault) ==
    [ok |-> TRUE, db |-> txn]

\* The loop over reminder_entries inside the transaction. Statement i+1 is
\* the INSERT of entry i; fault names the statement that hits an I/O error
\* (0: none). job_id is UNIQUE: inserting an existing job_id raises.
RECURSIVE InsertReminders(_, _, _, _, _, _)
InsertReminders(txn, task_id, entries, i, t, fault) ==
    IF i > Len(entries) THEN [ok |-> TRUE, db |-> txn]
    ELSE IF fault = i + 1 \/ UniqueViolation(txn, entries[i].id)
         THEN [ok |-> FALSE, db |-> txn]
         ELSE InsertReminders(
                [txn EXCEPT !.reminders =
                    (entries[i].id :> ReminderRow(task_id, entries[i], t)) @@ @],
                task_id, entries, i + 1, t, fault)

\* fault = 1: the INSERT of the task row fails; fault = Len+2: commit fails.
\* txn is what the transaction had written when it ended.
save_task_with_reminders(d, chat_id, task_description, base_time, reminder_entries, t, fault) ==
    LET task_id == d.seq + 1
        txn0 == [d EXCEPT !.tasks = (task_id :> TaskRow(chat_id,
                                task_description, base_time, t)) @@ @,
                          !.seq = task_id]
        r == InsertReminders(txn0, task_id, reminder_entries, 1, t, fault)
    IN IF fault = 1
       THEN [ok |-> FALSE, db |-> Rollback(d, d), task_id |-> 0, txn |-> d]
       ELSE IF ~r.ok \/ fault = Len(reminder_entries) + 2
            THEN [ok |-> FALSE, db |-> Rollback(d, r.db), task_id |-> 0,
                  txn |-> r.db]
            ELSE [ok |-> TRUE, db |-> Commit(d, r.db), task_id |-> task_id,
                  txn |-> r.db]

\* a faulty variant: marking a reminder that is already 'sent' puts it back
\* to 'pending'
mark_reminder_sent_toggles(d, job_id, t) ==
    IF job_id \in DOMAIN d.reminders
    THEN [d EXCEPT !.reminders[job_id].status =
                      IF @ = "sent" THEN "pending" ELSE "sent",
                   !.reminders[job_id].sent_at = get_current_time_utc(t)]
    ELSE d

\* a faulty variant: the UPDATE has no WHERE clause
mark_reminder_sent_all(d, job_id, t) ==
    [d EXCEPT !.reminders =
        [j \in DOMAIN d.reminders |->
            [d.reminders[j] EXCEPT !.status = "sent",
                                   !.sent_at = get_current_time_utc(t)]]]

\* UPDATE reminders SET status = 'sent', sent_at = ? WHERE job_id = ?
mark_reminder_sent(d, job_id, t) ==
    IF job_id \in DOMAIN d.reminders
    THEN [d EXCEPT !.reminders[job_id].status = "sent",
                   !.reminders[job_id].sent_at = get_current_time_utc(t)]
    ELSE d

\* the rows of: reminders r JOIN tasks t ON r.task_id = t.id
\*              WHERE r.status = 'pending'
PendingJoin(d) ==
    {[job_id |-> j,
      reminder_time_utc |-> d.reminders[j].reminder_time_utc,
      message |-> d.reminders[j].message,
      chat_id |-> d.tasks[d.reminders[j].task_id].chat_id,
      task_description |-> d.tasks[d.reminders[j].task_id].task_description]
     : j \in {k \in DOMAIN d.reminders :
                /\ d.reminders[k].status = "pending"
                /\ d.reminders[k].task_id \in DOMAIN d.tasks}}

\* a faulty variant: the rows come in descending order
TextLeq_descending(a, b) == b[1] < a[1] \/ (a[1] = b[1] /\ b[2] <= a[2])

\* ORDER BY r.reminder_time_utc: TEXT comparison of ISO-8601 strings
TextLeq(a, b) == a[1] < b[1] \/ (a[1] = b[1] /\ a[2] <= b[2])

get_pending_reminders(d) ==
    LET S == PendingJoin(d)
        n == Cardinality(S)
    IN CHOOSE s \in [1..n -> S] :
          /\ \A i, k \in 1..n : i # k => s[i] # s[k]
          /\ \A i, k \in 1..n :
                i < k => TextLeq(s[i].reminder_time_utc, s[k].reminder_time_utc)

(* ------------------------------ scheduler ------------------------------ *)
\* a faulty variant: add_job(..., replace_existing=True)
add_job_replaces(js, job_id, run_date, chat_id, message) ==
    [ok |-> TRUE,
     jobs |-> (job_id :> [run_date |-> run_date, chat_id |-> chat_id,
                          message |-> message]) @@ js]

\* scheduler.add_job(func=send_message, trigger=DateTrigger(run_date),
\*                   args=[chat_id, message, job_id], id=job_id):
\* a running scheduler raises ConflictingIdError for an id it already holds.
add_job(js, job_id, run_date, chat_id, message) ==
    IF job_id \in DOMAIN js THEN [ok |-> FALSE, jobs |-> js]
    ELSE [ok |-> TRUE,
          jobs |-> (job_id :> [run_date |-> run_date, chat_id |-> chat_id,
                               message |-> message]) @@ js]

\* a faulty variant: a job that has run stays in the job store
RemoveJob_keeps(js, job_id) == js

RemoveJob(js, job_id) == [k \in DOMAIN js \ {job_id} |-> js[k]]

NoJob == << >>

(* ----------------------------- send_message ---------------------------- *)
\* a faulty variant: the reminder is marked sent also when both POSTs failed
send_message_marks_always(d, t, job_id, p1, m1, p2, m2) ==
    IF p1 /\ (job_id = NoJob \/ m1)
    THEN [db |-> IF job_id = NoJob THEN d ELSE mark_reminder_sent(d, job_id, t),
          posts |-> 1, marks |-> IF job_id = NoJob THEN 0 ELSE 1, calls |-> 1]
    ELSE [db |-> IF job_id = NoJob THEN d ELSE mark_reminder_sent(d, job_id, t),
          posts |-> (IF p1 THEN 1 ELSE 0) + (IF p2 THEN 1 ELSE 0),
          marks |-> IF job_id = NoJob THEN 0 ELSE (IF p1 THEN 2 ELSE 1),
          calls |-> 2]

\* a faulty variant: a failed POST is tried again and again
send_message_retries(d, t, job_id, p1, m1, p2, m2) ==
    IF p1
    THEN [db |-> IF job_id = NoJob THEN d ELSE mark_reminder_sent(d, job_id, t),
          posts |-> 1, marks |-> IF job_id = NoJob THEN 0 ELSE 1, calls |-> 1]
    ELSE [db |-> d, posts |-> 0, marks |-> 0, calls |-> 3]

\* p1, p2: the primary and the fallback POST succeed; m1, m2: the
\* mark_reminder_sent that follows each succeeds (it raises otherwise).
\* posts counts the POSTs that succeeded, marks the mark_reminder_sent calls,
\* calls the requests.post calls made.
send_message(d, t, job_id, p1, m1, p2, m2) ==
    LET hasJob == job_id # NoJob
        fallback(posts, marks) ==
            IF p2
            THEN IF hasJob
                 THEN [db |-> IF m2 THEN mark_reminder_sent(d, job_id, t) ELSE d,
                       posts |-> posts + 1, marks |-> marks + 1, calls |-> 2]
                 ELSE [db |-> d, posts |-> posts + 1, marks |-> marks,
                       calls |-> 2]
            ELSE [db |-> d, posts |-> posts, marks |-> marks, calls |-> 2]
    IN IF p1
       THEN IF hasJob
            THEN IF m1
                 THEN [db |-> mark_reminder_sent(d, job_id, t),
                       posts |-> 1, marks |-> 1, calls |-> 1]
                 ELSE fallback(1, 1)
            ELSE [db |-> d, posts |-> 1, marks |-> 0, calls |-> 1]
       ELSE fallback(0, 0)

\* the runs of send_message: a flag is FALSE where the call it stands for
\* is not reached
NotifierOutcomes(job_id) ==
    {o \in BOOLEAN \X BOOLEAN \X BOOLEAN \X BOOLEAN :
        /\ o[2] => (o[1] /\ job_id # NoJob)
        /\ o[3] => (~o[1] \/ (job_id # NoJob /\ ~o[2]))
        /\ o[4] => (o[3] /\ job_id # NoJob)}

(* ------------------------ restore_scheduled_jobs ----------------------- *)
\* a faulty variant: restoration skips only reminders strictly before now
IsDue_strict(reminder_time_utc, now_utc) ==
    Instant(reminder_time_utc) < Instant(now_utc)

\* "if reminder_time_utc <= now_utc: ... continue"
IsDue(reminder_time_utc, now_utc) ==
    Instant(reminder_time_utc) <= Instant(now_utc)

RECURSIVE RestoreLoop(_, _, _, _, _)
RestoreLoop(pending, i, now_utc, js, skip) ==
    IF i > Len(pending) THEN [jobs |-> js, skipped |-> skip]
    ELSE LET reminder == pending[i]
             reminder_time_utc == dateparser_parse_iso(reminder.reminder_time_utc)
         IN IF IsDue(reminder_time_utc, now_utc)
            THEN RestoreLoop(pending, i + 1, now_utc, js,
                             skip \cup {reminder.job_id})
            ELSE RestoreLoop(pending, i + 1, now_utc,
                             add_job(js, reminder.job_id, reminder_time_utc,
                                     reminder.chat_id, reminder.message).jobs,
                             skip)

\* readOk = FALSE: db.get_pending_reminders() raises, the outer except logs.
restore_scheduled_jobs(d, t, js, readOk) ==
    IF readOk
    THEN RestoreLoop(get_pending_reminders(d), 1, get_current_time_utc(t), js, {})
    ELSE [jobs |-> js, skipped |-> {}]

(* ------------------------------- requests ------------------------------ *)
Chats == 1..MaxChat

Messages == {"m1", "m2"}

\* time texts the planner can return at instant t
TimeTexts(t) ==
    {<< >>} \cup {<<t + UserOffset + k>> : k \in (0 - MaxBehind)..MaxAhead}

RECURSIVE SeqsUpTo(_, _)
SeqsUpTo(S, n) ==
    IF n = 0 THEN {<< >>}
    ELSE LET shorter == SeqsUpTo(S, n - 1)
         IN shorter \cup {Append(s, x) : s \in {q \in shorter : Len(q) = n - 1},
                                         x \in S}

ReminderLists(t) ==
    SeqsUpTo({[time |-> x, message |-> "m1"] : x \in TimeTexts(t)}, MaxReminders)

\* what extract_task_plan can return: complete plans, and plans with the
\* task, the base time or the reminder list empty
Plans(t) ==
    {[task |-> "task", base_time |-> "due", reminders |-> rs] :
        rs \in ReminderLists(t)}
    \cup {[task |-> h[1], base_time |-> h[2],
           reminders |-> <<[time |-> <<t + UserOffset + MaxAhead>>,
                            message |-> "m1"]>>] :
            h \in {<<"", "due">>, <<"task", "">>}}

EmptyPlan == [task |-> "", base_time |-> "", reminders |-> << >>]

IdleReq == [pc |-> "idle", chat_id |-> 0, now_utc |-> None,
            now_user_tz |-> None, plan |-> EmptyPlan,
            task_entries |-> << >>]

\* the candidate instants of a plan before, at and after the reference instant
Candidates(plan, r) ==
    {parse_time_string(plan.reminders[i].time, r.now_user_tz) :
        i \in 1..Len(plan.reminders)}

Before(plan, r) ==
    {c \in Candidates(plan, r) :
        c.kind # "none" /\ Instant(c) < Instant(r.now_utc)}

After(plan, r) ==
    {c \in Candidates(plan, r) :
        c.kind # "none" /\ Instant(c) > Instant(r.now_utc)}

PlanKind(r) ==
    IF r.plan.reminders # << >> /\ Candidates(r.plan, r) = Before(r.plan, r)
    THEN "all_past"
    ELSE IF Before(r.plan, r) # {} /\ After(r.plan, r) # {}
         THEN "mixed" ELSE "other"

\* what the last step did, for the properties below: the texts sent to the
\* user, whether the save committed, whether an I/O fault was injected and
\* whether the transaction had written rows when it was rolled back; http is
\* the status of the response: these paths all end in "return jsonify(ok=True)"
HttpOk == 200

HttpServerError == 500

WebhookLast(op, r, replies, s, fault) ==
    [op |-> op, kind |-> PlanKind(r), replies |-> replies, saved |-> s.ok,
     io |-> fault # 0, partial |-> ~s.ok /\ s.txn # s.db, http |-> HttpOk]

NoSave(d) == [ok |-> FALSE, db |-> d, task_id |-> 0, txn |-> d]

Init ==
    /\ now = 0
    /\ running = TRUE
    /\ db = EmptyDb
    /\ jobs = << >>
    /\ req = IdleReq
    /\ nreq = 0
    /\ sends = << >>
    /\ fired = << >>
    /\ skipped = {}
    /\ last = [op |-> "init"]

Tick ==
    /\ now < MaxTime
    /\ now' = now + 1
    /\ last' = [op |-> "tick"]
    /\ UNCHANGED <<running, db, jobs, req, nreq, sends, fired, skipped>>

\* the clock also advances while the process is down
Stop ==
    /\ running
    /\ running' = FALSE
    /\ jobs' = << >>
    /\ req' = IdleReq
    /\ last' = [op |-> "stop"]
    /\ UNCHANGED <<now, db, nreq, sends, fired, skipped>>

\* create_app(): a fresh scheduler, then restore_scheduled_jobs()
Start ==
    /\ ~running
    /\ \E readOk \in BOOLEAN :
         LET r == restore_scheduled_jobs(db, now, << >>, readOk)
         IN /\ jobs' = r.jobs
            /\ skipped' = skipped \cup r.skipped
            /\ last' = [op |-> "start", readOk |-> readOk,
                        now_utc |-> get_current_time_utc(now),
                        skipped |-> r.skipped]
    /\ running' = TRUE
    /\ UNCHANGED <<now, db, req, nreq, sends, fired>>

Min(a, b) == IF a < b THEN a ELSE b

\* sends[job_id]: how many POSTs carrying that reminder the notifier has
\* accepted so far; fired[job_id]: how many times the timer callback of
\* that reminder has run. Both counts stop at MaxSends ("more than once").
Delivered(sn, job_id) == IF job_id \in DOMAIN sn THEN sn[job_id] ELSE 0

\* The scheduler thread runs a job at or after its run_date; a DateTrigger
\* job is removed once it has run. The callback is send_message(*args).
Fire(job_id) ==
    /\ running
    /\ job_id \in DOMAIN jobs
    /\ Instant(jobs[job_id].run_date) <= now
    /\ \E o \in NotifierOutcomes(job_id) :
         LET r == send_message(db, now, job_id, o[1], o[2], o[3], o[4])
         IN /\ db' = r.db
            /\ sends' = IF r.posts = 0 THEN sends
                        ELSE (job_id :> Min(Delivered(sends, job_id) + r.posts,
                                            MaxSends))
                             @@ sends
            /\ last' = [op |-> "fire", job_id |-> job_id,
                        posts |-> r.posts, marks |-> r.marks,
                        calls |-> r.calls]
    /\ fired' = (job_id :> Min(Delivered(fired, job_id) + 1, MaxSends)) @@ fired
    /\ jobs' = RemoveJob(jobs, job_id)
    /\ UNCHANGED <<now, running, req, nreq, skipped>>

\* a faulty variant: only unparseable times are discarded
IsPast_keeps_past(dt_utc, now_utc) == dt_utc.kind = "none"

\* "if not dt_utc or dt_utc < now_utc: continue"
IsPast(dt_utc, now_utc) ==
    dt_utc.kind = "none" \/ Instant(dt_utc) < Instant(now_utc)

\* f"{chat_id}_{int(now_utc.timestamp())}_{idx}"
JobId(chat_id, now_utc, idx) == <<chat_id, Timestamp(now_utc), idx>>

Entry(job_id, task, dt_utc, message) ==
    [id |-> job_id, task |-> task, time_utc |-> isoformat(dt_utc),
     time_user |-> isoformat(convert_to_user_tz(dt_utc)), message |-> message]

\* "for idx, reminder in enumerate(reminders)": parse, filter, arm, collect.
\* i counts from 1, enumerate's idx from 0.
RECURSIVE ScheduleLoop(_, _, _, _)
ScheduleLoop(r, i, js, task_entries) ==
    IF i > Len(r.plan.reminders) THEN [jobs |-> js, task_entries |-> task_entries]
    ELSE LET reminder == r.plan.reminders[i]
             dt_utc == parse_time_string(reminder.time, r.now_user_tz)
             job_id == JobId(r.chat_id, r.now_utc, i - 1)
             a == add_job(js, job_id, dt_utc, r.chat_id, reminder.message)
         IN IF IsPast(dt_utc, r.now_utc) \/ ~a.ok
            THEN ScheduleLoop(r, i + 1, js, task_entries)
            ELSE ScheduleLoop(r, i + 1, a.jobs,
                              Append(task_entries,
                                     Entry(job_id, r.plan.task, dt_utc,
                                           reminder.message)))

\* a faulty variant: requests are served whether or not create_app has
\* returned
AcceptsTraffic_always(up) == TRUE

\* "app = create_app()": the server has an app to route requests to only
\* once create_app, and with it restore_scheduled_jobs, has returned
AcceptsTraffic(up) == up

\* The body of a request that carries no usable message:
\*   "undecodable": get_json(force=True) raises; the except branch then reads
\*                  data, which was never bound, and raises itself;
\*   "no_message":  a JSON object without "message": acknowledged at once;
\*   "bad_message": "message" is no object: the lookup of ["chat"] raises, and
\*                  in the except branch data.get("message", {}).get raises.
\* An exception that leaves the view function makes Flask answer 500.
Bodies == {"undecodable", "no_message", "bad_message"}

webhook_body(body) ==
    IF body = "no_message" THEN [http |-> HttpOk, replies |-> << >>]
    ELSE [http |-> HttpServerError, replies |-> << >>]

WebhookBody(body) ==
    /\ AcceptsTraffic(running)
    /\ req.pc = "idle"
    /\ last' = [op |-> "webhook_body", http |-> webhook_body(body).http,
                replies |-> webhook_body(body).replies]
    /\ UNCHANGED <<now, running, db, jobs, req, nreq, sends, fired, skipped>>

\* The text of a webhook request reaches the planner; the plan is checked
\* and its reminders are armed. The request thread then goes on to the save.
WebhookReceive(chat_id, plan) ==
    /\ AcceptsTraffic(running)
    /\ req.pc = "idle"
    /\ nreq < MaxRequests
    /\ nreq' = nreq + 1
    /\ LET r == [pc |-> "save", chat_id |-> chat_id,
                 now_utc |-> get_current_time_utc(now),
                 now_user_tz |-> get_current_time_in_user_tz(now),
                 plan |-> plan, task_entries |-> << >>]
           s == ScheduleLoop(r, 1, jobs, << >>)
       IN IF plan.task = "" \/ plan.base_time = "" \/ plan.reminders = << >>
          THEN /\ req' = IdleReq
               /\ jobs' = jobs
               /\ last' = WebhookLast("webhook_done", r, <<"clarify">>,
                                      NoSave(db), 0)
          ELSE /\ req' = [r EXCEPT !.task_entries = s.task_entries]
               /\ jobs' = s.jobs
               /\ last' = [op |-> "webhook_receive"]
    /\ UNCHANGED <<now, running, db, sends, fired, skipped>>

\* "if task_entries:" save and confirm, else report that nothing is in the future
WebhookFinish ==
    /\ running
    /\ req.pc = "save"
    /\ IF req.task_entries # << >>
       THEN \E fault \in 0..(Len(req.task_entries) + 2) :
              LET s == save_task_with_reminders(db, req.chat_id, req.plan.task,
                          req.plan.base_time, req.task_entries, now, fault)
              IN /\ db' = s.db
                 /\ last' = WebhookLast("webhook_done", req,
                              IF s.ok THEN <<"scheduled">>
                              ELSE <<"save_failed", "scheduled">>,
                              s, fault)
       ELSE /\ db' = db
            /\ last' = WebhookLast("webhook_done", req, <<"all_past">>,
                                   NoSave(db), 0)
    /\ req' = IdleReq
    /\ UNCHANGED <<now, running, jobs, nreq, sends, fired, skipped>>

\* the process is lost inside the transaction of save_task_with_reminders
CrashDuringSave ==
    /\ running
    /\ req.pc = "save"
    /\ req.task_entries # << >>
    /\ \E fault \in 1..(Len(req.task_entries) + 2) :
         LET s == save_task_with_reminders(db, req.chat_id, req.plan.task,
                     req.plan.base_time, req.task_entries, now, fault)
         IN /\ db' = s.db
            /\ last' = WebhookLast("crash_in_save", req, << >>, s, fault)
    /\ running' = FALSE
    /\ jobs' = << >>
    /\ req' = IdleReq
    /\ UNCHANGED <<now, nreq, sends, fired, skipped>>

Next ==
    \/ Tick
    \/ Stop
    \/ Start
    \/ \E job_id \in DOMAIN jobs : Fire(job_id)
    \/ \E chat_id \in Chats, plan \in Plans(now) : WebhookReceive(chat_id, plan)
    \/ WebhookFinish
    \/ CrashDuringSave
    \/ \E body \in Bodies : WebhookBody(body)

Spec == Init /\ [][Next]_vars

(* ------------------------------- the sweep ----------------------------- *)
\* Instant 0 of the model is 00:00:00 UTC on day FirstDay of a month of
\* DaysInMonth days; the sweep is followed over the days 0..MaxDay after it.
SecondsPerDay == 86400

TicksPerDay == SecondsPerDay * TicksPerSecond

FirstDay == 30

DaysInMonth == 31

MaxDay == 2

MaxDaysOld == 1

\* datetime.day of datetime.utcnow()
DayOfMonth(t) == ((FirstDay - 1 + (t \div TicksPerDay)) % DaysInMonth) + 1

\* SQLite's < on two TEXT values holding naive ISO-8601 texts: field by
\* field, and a text that is a proper prefix of another is the smaller
NaiveTextLess(a, b) ==
    \/ a[1] < b[1]
    \/ a[1] = b[1] /\ Len(a) < Len(b)
    \/ a[1] = b[1] /\ Len(a) = 2 /\ Len(b) = 2 /\ a[2] < b[2]

\* a faulty variant: the HAVING clause does not count the pending reminders
AllRemindersSent_ignores_pending(d) ==
    {k \in DOMAIN d.tasks :
        /\ d.tasks[k].status = "active"
        /\ \E j \in DOMAIN d.reminders : d.reminders[j].task_id = k}

\* the tasks selected by: tasks t LEFT JOIN reminders r ON t.id = r.task_id
\*   WHERE t.status = 'active' GROUP BY t.id
\*   HAVING COUNT(r.id) > 0 AND COUNT(CASE WHEN r.status = 'pending' ...) = 0
AllRemindersSent(d) ==
    {k \in DOMAIN d.tasks :
        /\ d.tasks[k].status = "active"
        /\ \E j \in DOMAIN d.reminders : d.reminders[j].task_id = k
        /\ \A j \in DOMAIN d.reminders :
              d.reminders[j].task_id = k => d.reminders[j].status # "pending"}

\* cutoff_date.replace(day=cutoff_date.day - days_old) raises ValueError when
\* the day it asks for is not a day of the month; the with-block then rolls
\* the UPDATE back. The connection never sets PRAGMA foreign_keys, so the
\* DELETE of a task leaves its reminders in place.
cleanup_old_tasks(d, t, days_old) ==
    LET marked == [d EXCEPT !.tasks =
                      [k \in DOMAIN d.tasks |->
                          IF k \in AllRemindersSent(d)
                          THEN [d.tasks[k] EXCEPT !.status = "completed"]
                          ELSE d.tasks[k]]]
        day == DayOfMonth(t) - days_old
        cutoff_date == <<(t \div TicksPerSecond) - days_old * SecondsPerDay>>
        deleted == {k \in DOMAIN marked.tasks :
                       /\ marked.tasks[k].status = "completed"
                       /\ NaiveTextLess(marked.tasks[k].created_at, cutoff_date)}
        txn == [marked EXCEPT !.tasks =
                   [k \in DOMAIN marked.tasks \ deleted |-> marked.tasks[k]]]
    IN IF day < 1 \/ day > DaysInMonth
       THEN [ok |-> FALSE, db |-> Rollback(d, marked), deleted_count |-> 0]
       ELSE [ok |-> TRUE, db |-> Commit(d, txn),
             deleted_count |-> Cardinality(deleted)]

NextDay ==
    /\ now \div TicksPerDay < MaxDay
    /\ now' = now + TicksPerDay
    /\ last' = [op |-> "next_day"]
    /\ UNCHANGED <<running, db, jobs, req, nreq, sends, fired, skipped>>

\* POST /cleanup with days_old in the body
Cleanup(days_old) ==
    /\ running
    /\ LET c == cleanup_old_tasks(db, now, days_old)
       IN /\ db' = c.db
          /\ last' = [op |-> "cleanup", days_old |-> days_old, ok |-> c.ok,
                      deleted_count |-> c.deleted_count]
    /\ UNCHANGED <<now, running, jobs, req, nreq, sends, fired, skipped>>

\* the plans followed over days: complete plans whose reminders are all due
\* at the instant of the request
SweepPlans(t) ==
    {plan \in Plans(t) :
        /\ plan.task # "" /\ plan.base_time # "" /\ plan.reminders # << >>
        /\ \A i \in 1..Len(plan.reminders) :
              plan.reminders[i].time = <<t + UserOffset>>}

\* the service followed over days: requests, timers and the sweep
SweepNext ==
    \/ NextDay
    \/ \E days_old \in 0..MaxDaysOld : Cleanup(days_old)
    \/ \E job_id \in DOMAIN jobs : Fire(job_id)
    \/ \E chat_id \in Chats, plan \in SweepPlans(now) :
          WebhookReceive(chat_id, plan)
    \/ WebhookFinish

SweepSpec == Init /\ [][SweepNext]_vars
(* ------------------------------ the queries ---------------------------- *)
\* a faulty variant: the status is not looked at
UserTaskIds_any_status(d, chat_id) ==
    {k \in DOMAIN d.tasks : d.tasks[k].chat_id = chat_id}

\* the tasks selected by: WHERE t.chat_id = ? AND t.status = 'active'
UserTaskIds(d, chat_id) ==
    {k \in DOMAIN d.tasks :
        d.tasks[k].chat_id = chat_id /\ d.tasks[k].status = "active"}

\* one row of: tasks t LEFT JOIN reminders r ON t.id = r.task_id GROUP BY t.id
\* with COUNT(r.id) and COUNT(CASE WHEN r.status = 'sent' THEN 1 END)
UserTaskRow(d, k) ==
    [id |-> k, created_at |-> d.tasks[k].created_at,
     total_reminders |->
        Cardinality({j \in DOMAIN d.reminders : d.reminders[j].task_id = k}),
     sent_reminders |->
        Cardinality({j \in DOMAIN d.reminders :
                        /\ d.reminders[j].task_id = k
                        /\ d.reminders[j].status = "sent"})]

\* ORDER BY t.created_at DESC LIMIT ?: SQLite reads a negative LIMIT as no
\* limit at all
get_user_tasks(d, chat_id, limit) ==
    LET S == UserTaskIds(d, chat_id)
        n == Cardinality(S)
        ordered == CHOOSE s \in [1..n -> S] :
                      /\ \A i, k \in 1..n : i # k => s[i] # s[k]
                      /\ \A i, k \in 1..n :
                            i < k => ~NaiveTextLess(d.tasks[s[i]].created_at,
                                                    d.tasks[s[k]].created_at)
        m == IF limit < 0 \/ limit > n THEN n ELSE limit
    IN [i \in 1..m |-> UserTaskRow(d, ordered[i])]

\* The stores the queries are applied to: up to MaxQueryTasks tasks saved one
\* after the other by the recipients 1..MaxQueryChat, each with one to
\* MaxReminders reminders. A task is 'completed' or deleted by the sweep only
\* when none of its reminders is pending.
MaxQueryTasks == 2

MaxQueryChat == 2

MaxLimit == 2

QueryReminders ==
    SeqsUpTo({[status |-> st, time |-> w] :
                 st \in {"pending", "sent"}, w \in 0..MaxTime},
             MaxReminders) \ {<< >>}

TaskShapes ==
    {[chat_id |-> c, created |-> t, status |-> st, reminders |-> rs] :
        c \in 1..MaxQueryChat, t \in 0..MaxTime,
        st \in {"active", "completed", "deleted"}, rs \in QueryReminders}

ValidShape(sh) ==
    sh.status # "active" =>
        \A i \in 1..Len(sh.reminders) : sh.reminders[i].status = "sent"

\* Task k of a store was saved by a request of second k, shapes[k].created
\* ticks into that second: its reminders have the ids chat_k_0, chat_k_1, ...
SavedAt(shapes, k) == k * TicksPerSecond + shapes[k].created

StoreOf(shapes) ==
    LET ids == {<<k, i>> \in (1..Len(shapes)) \X (1..MaxReminders) :
                    i <= Len(shapes[k].reminders)}
        idOf(p) == JobId(shapes[p[1]].chat_id,
                         get_current_time_utc(p[1] * TicksPerSecond), p[2] - 1)
        pairOf(j) == CHOOSE p \in ids : idOf(p) = j
        row(p) ==
            [ReminderRow(p[1],
                Entry(idOf(p), "task",
                      get_current_time_utc(shapes[p[1]].reminders[p[2]].time),
                      "m1"),
                SavedAt(shapes, p[1]))
             EXCEPT !.status = shapes[p[1]].reminders[p[2]].status,
                    !.sent_at = IF shapes[p[1]].reminders[p[2]].status = "sent"
                                THEN get_current_time_utc(SavedAt(shapes, p[1]))
                                ELSE None]
    IN [tasks |->
           [k \in {i \in 1..Len(shapes) : shapes[i].status # "deleted"} |->
               [TaskRow(shapes[k].chat_id, "task", "due", SavedAt(shapes, k))
                EXCEPT !.status = shapes[k].status]],
        reminders |-> [j \in {idOf(p) : p \in ids} |-> row(pairOf(j))],
        seq |-> Len(shapes)]

QueryStores ==
    {StoreOf(shapes) :
        shapes \in SeqsUpTo({sh \in TaskShapes : ValidShape(sh)},
                            MaxQueryTasks)}

QueryInit ==
    /\ now = (MaxQueryTasks + 1) * TicksPerSecond
    /\ running = TRUE
    /\ db \in QueryStores
    /\ jobs = << >>
    /\ req = IdleReq
    /\ nreq = 0
    /\ sends = << >>
    /\ fired = << >>
    /\ skipped = {}
    /\ last = [op |-> "init"]

QueryPending ==
    /\ last' = [op |-> "get_pending_reminders",
                result |-> get_pending_reminders(db)]
    /\ UNCHANGED <<now, running, db, jobs, req, nreq, sends, fired, skipped>>

\* GET /tasks?chat_id=..&limit=.. and the /mytasks command
QueryTasks(chat_id, limit) ==
    /\ last' = [op |-> "get_user_tasks", chat_id |-> chat_id, limit |-> limit,
                result |-> get_user_tasks(db, chat_id, limit)]
    /\ UNCHANGED <<now, running, db, jobs, req, nreq, sends, fired, skipped>>

\* "db.get_user_tasks(chat_id, limit=5)" of the /mytasks command
MyTasksLimit == 5

\* "created_at > datetime('now', '-30 days')" of the analytics and of the
\* insights queries
WindowDays == 30

\* the tasks of the chat that get_task_analytics and
\* get_user_productivity_insights group: every query of the two has
\*   WHERE chat_id = ? AND created_at > datetime('now', '-30 days')
\* and yields a row exactly when there is such a task
RecentTasks(d, chat_id, t) ==
    {k \in DOMAIN d.tasks :
        /\ d.tasks[k].chat_id = chat_id
        /\ NaiveTextLess(<<(t \div TicksPerSecond) - WindowDays * SecondsPerDay>>,
                         d.tasks[k].created_at)}

Commands == {"/start", "/help", "/mytasks", "/analytics", "/insights"}

\* The texts a command request sends, in order. /start and /help send the
\* help text and return. The other three handlers read the Store and then
\*     if not <rows>: send_message(chat_id, <the 'nothing yet' text>)
\*     else:          msg = ...
\*     send_message(chat_id, msg)
\* so that without rows msg is unbound at the last call: the UnboundLocalError
\* reaches "except Exception", which sends the 'Something went wrong' text to
\* the chat (chat_id is not 0).
webhook_command(d, chat_id, text, t) ==
    IF text \in {"/start", "/help"} THEN <<"help">>
    ELSE IF text = "/mytasks"
         THEN IF get_user_tasks(d, chat_id, MyTasksLimit) = << >>
              THEN <<"no_tasks", "error">> ELSE <<"tasks">>
    ELSE IF text = "/analytics"
         THEN IF RecentTasks(d, chat_id, t) = {}
              THEN <<"no_analytics", "error">> ELSE <<"analytics">>
    ELSE IF RecentTasks(d, chat_id, t) = {}
         THEN <<"no_insights", "error">> ELSE <<"insights">>

\* POST /webhook with the text of a command
Command(chat_id, text) ==
    /\ AcceptsTraffic(running)
    /\ req.pc = "idle"
    /\ last' = [op |-> "command", chat_id |-> chat_id, text |-> text,
                replies |-> webhook_command(db, chat_id, text, now),
                http |-> HttpOk]
    /\ UNCHANGED <<now, running, db, jobs, req, nreq, sends, fired, skipped>>

QueryNext ==
    \/ QueryPending
    \/ \E chat_id \in 1..MaxQueryChat, limit \in (0 - 1)..MaxLimit :
          QueryTasks(chat_id, limit)
    \/ \E chat_id \in 1..MaxQueryChat, text \in Commands :
          Command(chat_id, text)

QuerySpec == QueryInit /\ [][QueryNext]_vars

(* ---------------------------- the conversions -------------------------- *)
\* the aware datetimes the conversions are applied to: every wall clock
\* reading up to MaxWall ticks either side of the epoch, in UTC, in the user
\* zone and in a zone west of UTC
MaxWall == 20

WestOffset == 0 - (MaxWall \div 2)

AwareInputs ==
    {Aware(w, off) : w \in (0 - MaxWall)..MaxWall,
                     off \in {UTC, UserOffset, WestOffset}}

TimeInit ==
    /\ now = 0
    /\ running = TRUE
    /\ db = EmptyDb
    /\ jobs = << >>
    /\ req = IdleReq
    /\ nreq = 0
    /\ sends = << >>
    /\ fired = << >>
    /\ skipped = {}
    /\ last = [op |-> "init"]

RoundTrip(dt) ==
    /\ last' = [op |-> "round_trip", dt |-> dt,
                user |-> convert_to_user_tz(dt),
                back |-> convert_to_utc(convert_to_user_tz(dt))]
    /\ UNCHANGED <<now, running, db, jobs, req, nreq, sends, fired, skipped>>

TimeNext == \E dt \in AwareInputs : RoundTrip(dt)

TimeSpec == TimeInit /\ [][TimeNext]_vars

(* ============================ properties ============================== *)
JobIds == DOMAIN db.reminders

RowTime(d, j) == dateparser_parse_iso(d.reminders[j].reminder_time_utc)

C2_AtMostOnceDelivery == \A j \in DOMAIN sends : sends[j] <= 1

(* ---- C3 ---- *)
\* C3: no notification is lost across a restart: once a restart has restored
\* the timers, every recorded reminder either has been dispatched exactly
\* once or has not been dispatched and is armed.
C3_NoNotificationLost ==
    (last.op = "start" /\ last.readOk) =>
        \A j \in JobIds :
            \/ Delivered(fired, j) = 1
            \/ Delivered(fired, j) = 0 /\ j \in DOMAIN jobs

(* ---- C4 ---- *)
\* the ids of the candidates of the request that lie strictly after its
\* reference instant
AfterIds(r) ==
    {JobId(r.chat_id, r.now_utc, i - 1) :
        i \in {k \in 1..Len(r.plan.reminders) :
                 LET c == parse_time_string(r.plan.reminders[k].time,
                                            r.now_user_tz)
                 IN c.kind # "none" /\ Instant(c) > Instant(r.now_utc)}}

ArmedIds(r) == {r.task_entries[i].id : i \in 1..Len(r.task_entries)}

\* C4: a request whose plan has candidates before and after the reference
\* instant (and whose save meets no I/O fault) persists and arms exactly the
\* candidates after it, creates one task row and does not report
\* AllRemindersPast.
C4_PastFiltering ==
    [][(last'.op = "webhook_done" /\ req.pc = "save"
        /\ PlanKind(req) = "mixed" /\ ~last'.io) =>
          /\ ArmedIds(req) = AfterIds(req)
          /\ DOMAIN db'.reminders \ DOMAIN db.reminders = AfterIds(req)
          /\ Cardinality(DOMAIN db'.tasks \ DOMAIN db.tasks) = 1
          /\ last'.replies # <<"all_past">>]_vars

(* ---- C5 ---- *)
\* the request a webhook step belongs to
StepReq == IF req.pc = "idle" THEN req' ELSE req

\* C5: when every candidate of a plan is before the reference instant, no
\* step of the request changes the Store or the armed timers, and the request
\* ends by sending the AllRemindersPast text.
C5_AllPastChangesNothing ==
    [][(last'.op \in {"webhook_receive", "webhook_done"}
        /\ PlanKind(StepReq) = "all_past") =>
          /\ db' = db
          /\ jobs' = jobs
          /\ last'.op = "webhook_done" => last'.replies = <<"all_past">>]_vars

C5_Witness ==
    /\ last.op = "webhook_done"
    /\ last.kind = "all_past"
    /\ last.replies = <<"all_past">>
    /\ JobIds # {}

(* ---- C6 ---- *)
\* C6: every reminder a request has armed (and goes on to persist) lies
\* strictly after the request's reference instant.
C6_StrictlyFuture ==
    \A i \in 1..Len(req.task_entries) :
        Instant(dateparser_parse_iso(req.task_entries[i].time_utc))
            > Instant(req.now_utc)

(* ---- C7 ---- *)
\* C7: marking a reminder sent a second time, now or later, leaves the Store
\* as the first marking left it.
C7_MarkSentIdempotent ==
    \A j \in JobIds : \A t \in now..MaxTime :
        mark_reminder_sent(mark_reminder_sent(db, j, now), j, t)
            = mark_reminder_sent(db, j, now)

(* ---- C8 ---- *)
\* C8: a save either commits the task row with every reminder row of the
\* request and nothing else, or (I/O error, constraint error, lost process)
\* leaves the Store exactly as it was.
C8_AtomicTaskCreation ==
    [][(last'.op \in {"webhook_done", "crash_in_save"}
        /\ req.task_entries # << >>) =>
          IF last'.saved
          THEN LET tid == db.seq + 1
               IN /\ tid \notin DOMAIN db.tasks
                  /\ DOMAIN db'.tasks = DOMAIN db.tasks \cup {tid}
                  /\ \A k \in DOMAIN db.tasks : db'.tasks[k] = db.tasks[k]
                  /\ {j \in DOMAIN db'.reminders :
                         db'.reminders[j].task_id = tid} = ArmedIds(req)
                  /\ Cardinality(ArmedIds(req)) = Len(req.task_entries)
                  /\ DOMAIN db'.reminders = JobIds \cup ArmedIds(req)
                  /\ \A j \in JobIds : db'.reminders[j] = db.reminders[j]
          ELSE db' = db]_vars

C8_Witness ==
    /\ last.op \in {"webhook_done", "crash_in_save"}
    /\ ~last.saved
    /\ last.partial

(* ---- C9 ---- *)
\* C9: a reminder that restoration skipped (pending, fire time at or before
\* the restart) is not armed afterwards and stays pending.
C9_RestorationSkip ==
    \A j \in skipped :
        /\ j \notin DOMAIN jobs
        /\ j \in JobIds => db.reminders[j].status = "pending"

(* ---- C10 ---- *)
\* C10: a restart whose restoration read the Store arms exactly the pending
\* reminders with a fire time strictly after now, each with the recipient,
\* message and fire time recorded in the Store.
C10_RestorationComplete ==
    [][(last'.op = "start" /\ last'.readOk) =>
          /\ DOMAIN jobs' =
                {j \in JobIds : /\ db.reminders[j].status = "pending"
                                /\ Instant(RowTime(db, j)) > now}
          /\ \A j \in DOMAIN jobs' :
                /\ jobs'[j].chat_id = db.tasks[db.reminders[j].task_id].chat_id
                /\ jobs'[j].message = db.reminders[j].message
                /\ Instant(jobs'[j].run_date) = Instant(RowTime(db, j))]_vars

C10_Witness ==
    /\ last.op = "start"
    /\ last.readOk
    /\ last.skipped # {}
    /\ jobs # << >>

(* ---- C11 ---- *)
\* the positions of the plan whose candidate the request goes on to arm
NonPastIdx(r) ==
    {k \in 1..Len(r.plan.reminders) :
        ~IsPast(parse_time_string(r.plan.reminders[k].time, r.now_user_tz),
                r.now_utc)}

CandidateTime(r, k) == parse_time_string(r.plan.reminders[k].time, r.now_user_tz)

\* C11: arming a reminder_id that is already armed replaces the earlier
\* arming: once a request has armed its candidates, the timer of each of
\* their ids carries the fire time this request gave it.
C11_RearmReplaces ==
    [][last'.op = "webhook_receive" =>
          \A k \in NonPastIdx(req') :
              LET j == JobId(req'.chat_id, req'.now_utc, k - 1)
              IN /\ j \in DOMAIN jobs'
                 /\ jobs'[j].run_date = CandidateTime(req', k)]_vars

(* ---- C12 ---- *)
\* C12: every armed timer belongs to a reminder that the Store records as
\* 'pending'.
C12_PersistBeforeArm ==
    \A j \in DOMAIN jobs :
        j \in JobIds /\ db.reminders[j].status = "pending"

(* ---- C13 ---- *)
\* C13: a surviving candidate whose arming failed is nevertheless recorded:
\* when the request ends (its save meeting no I/O fault) the Store holds a
\* 'pending' row with the candidate's id and fire time.
C13_ArmFailureKeepsRecord ==
    [][(last'.op = "webhook_done" /\ req.pc = "save" /\ ~last'.io) =>
          \A k \in NonPastIdx(req) :
              LET j == JobId(req.chat_id, req.now_utc, k - 1)
              IN j \notin ArmedIds(req) =>
                    /\ j \in DOMAIN db'.reminders
                    /\ db'.reminders[j].reminder_time_utc
                          = isoformat(CandidateTime(req, k))
                    /\ db'.reminders[j].status = "pending"]_vars

(* ---- C14 ---- *)
\* C14: the ids a request gives its surviving candidates are new: none is the
\* id of an armed timer or of a row of the Store.
C14_GloballyUniqueIds ==
    [][last'.op = "webhook_receive" =>
          \A k \in NonPastIdx(req') :
              JobId(req'.chat_id, req'.now_utc, k - 1)
                  \notin (DOMAIN jobs \cup JobIds)]_vars

(* ---- C15 ---- *)
\* C15: a save whose reminder list carries the id of an existing row fails
\* with an error, leaves the Store exactly as it was (the existing row is not
\* overwritten) and writes no row of the new task.
C15_DuplicateIdRejected ==
    [][(last'.op = "webhook_done" /\ req.pc = "save"
        /\ ArmedIds(req) \cap JobIds # {}) =>
          /\ ~last'.saved
          /\ last'.replies[1] = "save_failed"
          /\ db' = db]_vars

C15_Witness ==
    /\ last.op = "webhook_done"
    /\ ~last.saved
    /\ ~last.io
    /\ last.partial
    /\ last.replies = <<"save_failed", "scheduled">>

(* ---- C16 ---- *)
\* C16: every reminder row references an existing task row.
C16_CascadeDelete ==
    \A j \in JobIds : db.reminders[j].task_id \in DOMAIN db.tasks

(* ---- C17 ---- *)
\* the instant a naive ISO-8601 text denotes
InstantOfText(a) ==
    a[1] * TicksPerSecond + (IF Len(a) = 2 THEN a[2] ELSE 0)

\* the tasks a sweep with older_than = days_old must delete: completed (the
\* sweep's own lazy completion included) and created before now - days_old
SweepDue(d, t, days_old) ==
    {k \in DOMAIN d.tasks :
        /\ d.tasks[k].status = "completed" \/ k \in AllRemindersSent(d)
        /\ InstantOfText(d.tasks[k].created_at) < t - days_old * TicksPerDay}

\* C17: a sweep deletes exactly the completed tasks created before now minus
\* days_old days, and returns how many they are.
C17_SweepDeletesExactly ==
    [][last'.op = "cleanup" =>
          /\ DOMAIN db.tasks \ DOMAIN db'.tasks
                = SweepDue(db, now, last'.days_old)
          /\ last'.deleted_count
                = Cardinality(SweepDue(db, now, last'.days_old))]_vars

(* ---- C18 ---- *)
\* the tasks a step takes out of status 'active'
LeftActive ==
    {k \in DOMAIN db.tasks :
        /\ db.tasks[k].status = "active"
        /\ k \in DOMAIN db'.tasks => db'.tasks[k].status # "active"}

\* C18: a sweep takes out of 'active' exactly the active tasks that have a
\* reminder and no pending reminder; no other step changes the status of a
\* task.
C18_LazyCompletion ==
    [][IF last'.op = "cleanup"
       THEN LeftActive = AllRemindersSent(db)
       ELSE \A k \in DOMAIN db.tasks :
               /\ k \in DOMAIN db'.tasks
               /\ db'.tasks[k].status = db.tasks[k].status]_vars

(* ---- C19 ---- *)
\* the active tasks every reminder of which has had its timer callback run
AllFired ==
    {k \in DOMAIN db.tasks :
        /\ db.tasks[k].status = "active"
        /\ \E j \in JobIds : db.reminders[j].task_id = k
        /\ \A j \in JobIds :
              db.reminders[j].task_id = k => Delivered(fired, j) >= 1}

\* C19: a task all of whose reminders have fired has no pending reminder, and
\* a sweep takes it out of 'active'.
C19_CompletionFollowsFiring ==
    [][last'.op = "cleanup" =>
          \A k \in AllFired :
              /\ \A j \in JobIds : db.reminders[j].task_id = k
                                      => db.reminders[j].status # "pending"
              /\ k \in LeftActive]_vars

(* ---- C20 ---- *)
\* C20: the status of a reminder changes only from 'pending' to 'sent', only
\* in the timer callback of its reminder_id; a row is never removed or put
\* back to 'pending'.
C20_StatusMonotonic ==
    [][\A j \in JobIds :
          /\ j \in DOMAIN db'.reminders
          /\ db'.reminders[j].status # db.reminders[j].status =>
                /\ db.reminders[j].status = "pending"
                /\ db'.reminders[j].status = "sent"
                /\ last'.op = "fire"
                /\ last'.job_id = j]_vars

C20_Witness ==
    \E j \in JobIds :
        /\ db.reminders[j].status = "sent"
        /\ Delivered(fired, j) = MaxSends
        /\ last.op = "fire"
        /\ last.job_id = j
        /\ last.marks > 0

HasEmptyField(plan) ==
    \/ plan.task = ""
    \/ plan.base_time = ""
    \/ plan.reminders = << >>
    \/ \E i \in 1..Len(plan.reminders) : plan.reminders[i].time = << >>

\* C22: no step of a request whose plan has an empty field arms a timer or
\* writes to the Store, and the request ends with the clarification.
C22_UnparseableSchedulesNothing ==
    [][(last'.op \in {"webhook_receive", "webhook_done"}
        /\ HasEmptyField(StepReq.plan)) =>
          /\ jobs' = jobs
          /\ db' = db
          /\ last'.op = "webhook_done" => last'.replies = <<"clarify">>]_vars

(* ---- C23 ---- *)
\* C23: every request that has been answered was answered with a success
\* acknowledgement.
C23_AlwaysAcknowledged ==
    last.op \in {"webhook_done", "webhook_body"} => last.http = HttpOk

(* ---- C24 ---- *)
\* C24: a request whose save failed has sent the 'could not save' text and
\* has not sent the confirmation that says the task is stored.
C24_StoreFailureSurfaced ==
    (last.op = "webhook_done" /\ last.replies # << >>
     /\ last.replies[1] = "save_failed") =>
        \A i \in 1..Len(last.replies) : last.replies[i] # "scheduled"

(* ---- C27 ---- *)
\* C27: a request is handled only by a process whose start (restoration
\* included) is over, and no request is in progress when restoration runs.
C27_StartupOrdering ==
    [][/\ last'.op \in {"webhook_receive", "webhook_done", "webhook_body"}
             => running /\ running'
       /\ last'.op = "start"
             => ~running /\ req = IdleReq /\ req' = IdleReq]_vars

C27_Witness ==
    /\ last.op = "webhook_receive"
    /\ skipped # {}
    /\ \E j \in DOMAIN jobs : j \notin ArmedIds(req)

(* ---- C29 ---- *)
\* C29: every task row of the Store has at least one reminder row.
C29_NoEmptyTask ==
    \A k \in DOMAIN db.tasks : \E j \in JobIds : db.reminders[j].task_id = k

C29_Witness ==
    /\ last.op = "webhook_done"
    /\ last.saved
    /\ last.kind = "mixed"
    /\ DOMAIN db.tasks # {}

(* ---- C30 ---- *)
\* C30: a timer callback makes at most two notifier calls (the POST and its
\* one fallback), and arms no timer: after it, the reminder is not armed.
C30_NoRetryLoop ==
    [][last'.op = "fire" =>
          /\ last'.calls <= 2
          /\ DOMAIN jobs' = DOMAIN jobs \ {last'.job_id}]_vars

C30_Witness ==
    /\ last.op = "fire"
    /\ last.posts = 0
    /\ last.calls = 2
    /\ last.job_id \notin DOMAIN jobs

(* ---- C25 ---- *)
PendingIds == {j \in JobIds : db.reminders[j].status = "pending"}

\* C25: get_pending_reminders returns every pending reminder once and no
\* other, in ascending order of fire time, each with the recipient and the
\* description of its task.
C25_PendingListExact ==
    last.op = "get_pending_reminders" =>
        LET r == last.result
        IN /\ {r[i].job_id : i \in 1..Len(r)} = PendingIds
           /\ Len(r) = Cardinality(PendingIds)
           /\ \A i, k \in 1..Len(r) :
                 i < k => Instant(dateparser_parse_iso(r[i].reminder_time_utc))
                            <= Instant(dateparser_parse_iso(r[k].reminder_time_utc))
           /\ \A i \in 1..Len(r) :
                 LET t == db.tasks[db.reminders[r[i].job_id].task_id]
                 IN /\ r[i].chat_id = t.chat_id
                    /\ r[i].task_description = t.task_description
                    /\ r[i].message = db.reminders[r[i].job_id].message

C25_Witness ==
    /\ last.op = "get_pending_reminders"
    /\ Len(last.result) >= 2
    /\ last.result[1].reminder_time_utc # last.result[2].reminder_time_utc
    /\ last.result[1].chat_id # last.result[2].chat_id
    /\ PendingIds # JobIds

(* ---- C26 ---- *)
StoredOf(chat_id) == {k \in DOMAIN db.tasks : db.tasks[k].chat_id = chat_id}

ActiveOf(chat_id) == {k \in StoredOf(chat_id) : db.tasks[k].status = "active"}

Newest(ids) ==
    {k \in ids : \A o \in ids :
        InstantOfText(db.tasks[o].created_at)
            <= InstantOfText(db.tasks[k].created_at)}

CountsRight(r) ==
    \A i \in 1..Len(r) :
        /\ r[i].total_reminders =
              Cardinality({j \in JobIds : db.reminders[j].task_id = r[i].id})
        /\ r[i].sent_reminders =
              Cardinality({j \in JobIds : /\ db.reminders[j].task_id = r[i].id
                                          /\ db.reminders[j].status = "sent"})
        /\ r[i].sent_reminders <= r[i].total_reminders

\* C26 as stated: at most limit tasks, all of the recipient, starting with
\* the most recently created of the recipient's stored tasks, with the counts
\* of their reminders.
C26_RecentTasksOfRecipient ==
    (last.op = "get_user_tasks" /\ last.limit >= 0) =>
        LET r == last.result
        IN /\ Len(r) <= last.limit
           /\ \A i \in 1..Len(r) : r[i].id \in StoredOf(last.chat_id)
           /\ (last.limit >= 1 /\ StoredOf(last.chat_id) # {}) =>
                 Len(r) >= 1 /\ r[1].id \in Newest(StoredOf(last.chat_id))
           /\ CountsRight(r)

\* C26 amended: the recipient's active tasks, most recently created first:
\* all of them when limit is negative or not below their number, else the
\* limit most recent ones; each with the counts of its reminders.
C26_RecentActiveTasksOfRecipient ==
    last.op = "get_user_tasks" =>
        LET r == last.result
            A == ActiveOf(last.chat_id)
            shown == {r[i].id : i \in 1..Len(r)}
        IN /\ shown \subseteq A
           /\ Cardinality(shown) = Len(r)
           /\ Len(r) = IF last.limit < 0 \/ last.limit > Cardinality(A)
                       THEN Cardinality(A) ELSE last.limit
           /\ \A i, k \in 1..Len(r) :
                 i < k => InstantOfText(r[i].created_at)
                            >= InstantOfText(r[k].created_at)
           /\ \A k \in A \ shown : \A i \in 1..Len(r) :
                 InstantOfText(db.tasks[k].created_at)
                    <= InstantOfText(r[i].created_at)
           /\ CountsRight(r)

C26_Witness ==
    /\ last.op = "get_user_tasks"
    /\ last.limit = 1
    /\ Len(last.result) = 1
    /\ Cardinality(ActiveOf(last.chat_id)) = 2
    /\ last.result[1].sent_reminders = 1
    /\ last.result[1].total_reminders = 2
    /\ \E k \in ActiveOf(last.chat_id) :
          db.tasks[k].created_at # last.result[1].created_at

UnparseableIdx(r) ==
    {i \in 1..Len(r.plan.reminders) :
        parse_time_string(r.plan.reminders[i].time, r.now_user_tz).kind = "none"}

\* C31: a request whose plan has a reminder with an unparseable time neither
\* arms nor persists that reminder, and ends with the clarification sent to
\* the user.
C31_UnparseableTimeClarified ==
    [][(last'.op = "webhook_done" /\ req.pc = "save"
        /\ UnparseableIdx(req) # {}) =>
          /\ \A i \in UnparseableIdx(req) :
                LET j == JobId(req.chat_id, req.now_utc, i - 1)
                IN /\ j \notin ArmedIds(req)
                   /\ j \notin DOMAIN db'.reminders \ DOMAIN db.reminders
          /\ \E n \in 1..Len(last'.replies) : last'.replies[n] = "clarify"]_vars

(* ---- C32 ---- *)
\* the pending reminders whose fire time lies strictly after instant t
PendingFuture(d, t) ==
    {j \in DOMAIN d.reminders :
        /\ d.reminders[j].status = "pending"
        /\ Instant(RowTime(d, j)) > t}

\* C32: while the process runs and no request is in progress, every pending
\* reminder whose fire time is strictly in the future has an armed timer.
C32_PendingFutureArmed ==
    (running /\ req.pc = "idle") => PendingFuture(db, now) \subseteq DOMAIN jobs

(* ---- C33 ---- *)
\* the scheduler after restore_scheduled_jobs has run once more on it
RestoredAgain(js) == restore_scheduled_jobs(db, now, js, TRUE).jobs

\* C33: restoration run on a scheduler that already holds timers leaves each
\* of them as it is, arms the pending reminders of the future that have no
\* timer, and run once more after that changes nothing.
C33_RestoreIdempotent ==
    running =>
        /\ \A j \in DOMAIN jobs : RestoredAgain(jobs)[j] = jobs[j]
        /\ DOMAIN RestoredAgain(jobs) = DOMAIN jobs \cup PendingFuture(db, now)
        /\ RestoredAgain(RestoredAgain(jobs)) = RestoredAgain(jobs)

C33_Witness ==
    /\ running
    /\ \E j \in DOMAIN jobs \cap PendingFuture(db, now) :
          jobs[j].run_date # RowTime(db, j)
    /\ PendingFuture(db, now) \ DOMAIN jobs # {}

(* ---- C34 ---- *)
\* C34: a reminder that the notifier has accepted and whose row a save then
\* commits is recorded 'sent' once the request has ended.
C34_DeliveredImpliesRecorded ==
    [][(last'.op = "webhook_done" /\ last'.saved) =>
          \A j \in DOMAIN db'.reminders \ DOMAIN db.reminders :
              Delivered(sends', j) >= 1 => db'.reminders[j].status = "sent"]_vars

(* ---- C35 ---- *)
\* C35: the sweep deletes no task that has a pending reminder, so every
\* pending reminder belongs to a task of the Store.
C35_SweepKeepsPendingTasks ==
    [][/\ last'.op = "cleanup" =>
             \A k \in DOMAIN db.tasks \ DOMAIN db'.tasks :
                 \A j \in JobIds :
                     db.reminders[j].task_id = k
                        => db.reminders[j].status # "pending"
       /\ \A j \in DOMAIN db'.reminders :
             db'.reminders[j].status = "pending"
                => db'.reminders[j].task_id \in DOMAIN db'.tasks]_vars

C35_Witness ==
    /\ last.op = "cleanup"
    /\ last.deleted_count >= 1
    /\ PendingIds # {}

(* ---- C36 ---- *)
\* C36: a sweep that raises leaves the Store as it was: no task is completed
\* and none is deleted.
C36_FailedSweepChangesNothing ==
    [][(last'.op = "cleanup" /\ ~last'.ok) => db' = db]_vars

C36_Witness ==
    /\ last.op = "cleanup"
    /\ ~last.ok
    /\ AllRemindersSent(db) # {}

(* ---- C37 ---- *)
\* C37: the timer callback of a reminder changes at most the status and the
\* sent_at of the row with its id; every other row and every task stay as
\* they are, and when no row has the id the Store is unchanged.
C37_MarkSentFrame ==
    [][last'.op = "fire" =>
          /\ db'.tasks = db.tasks
          /\ db'.seq = db.seq
          /\ DOMAIN db'.reminders = DOMAIN db.reminders
          /\ \A j \in JobIds :
                IF j = last'.job_id
                THEN [db'.reminders[j] EXCEPT !.status = db.reminders[j].status,
                                              !.sent_at = db.reminders[j].sent_at]
                        = db.reminders[j]
                ELSE db'.reminders[j] = db.reminders[j]
          /\ last'.job_id \notin JobIds => db' = db]_vars

C37_Witness ==
    /\ last.op = "fire"
    /\ last.marks > 0
    /\ last.job_id \in JobIds
    /\ db.reminders[last.job_id].status = "sent"
    /\ \E k \in JobIds \ {last.job_id} : db.reminders[k].status = "pending"

(* ---- C38 ---- *)
\* C38: every command request sends exactly one message, and that message
\* is not the generic error text.
C38_OneReplyPerCommand ==
    last.op = "command" =>
        /\ Len(last.replies) = 1
        /\ last.replies[1] # "error"
====
